---- MODULE Spec2Model ----
(***************************************************************************)
(* Browser resource manager and rendering pipeline of markdown-pdf-mcp     *)
(* (renderer/pdf-generator.ts, tools/convert.ts).                          *)
(*                                                                         *)
(* The program runs on one event loop: code between two awaits is one      *)
(* atomic step, and every await is a point where any other continuation    *)
(* may run.  Each action below is one such step.  Conversions carry no     *)
(* identity in the code, so the conversions in progress are kept as a bag  *)
(* of records, one record per call of convertMarkdownToPdf.                *)
(***************************************************************************)
EXTENDS Integers, FiniteSets, Sequences, Bags, TLC

\* ------------------------------------------------------------------ bounds
\* Byte counts are sampled at quarter multiples of the two unit sizes.
MaxQuarters == 8
\* A header or footer template is a sequence of at most this many pieces.
MaxPieces == 3
\* A document has at most this many headings.
MaxHeadings == 2
\* An error message holds at most this many of the words looked for.
MaxWords == 2
\* The text of a heading has at most this many characters.
MaxChars == 3
NumRequests == 2      \* conversions in progress or not yet returned
MaxLaunches == 2      \* chromium.launch() calls in one behaviour

\* ------------------------------------------------------- program constants
MAX_CONCURRENT_PAGES == 10

\* Browsers are numbered by their launch; number 1 is the browser that is
\* already up when the behaviour starts with pages held.
Launch == 1..(MaxLaunches + 1)

\* Pages that conversions outside the bag hold for the whole behaviour
\* (acquired through acquirePage before it starts, still rendering).
InitialHeld == {0, MAX_CONCURRENT_PAGES - 1}

VARIABLES
    browserInstance,      \* 0 = null, else the Browser (numbered by its launch)
    browserLaunchPromise, \* 0 = null, else the launch the promise belongs to
    activePages,          \* the counter
    launch,               \* launch/browser -> its status
    nextLaunch,           \* number of the last launch started
    reqs,                 \* bag of conversions, see NewRequest
    others,               \* pages held by the conversions outside the bag
    sdpc,                 \* closeBrowser: "idle" or "closing"
    shutdownRan,          \* closeBrowser has been called
    releaseThrew,         \* some releasePage call raised
    closeThrew,           \* some closeBrowser call raised
    onceHandlers,         \* signal -> cleanup handlers registered by launches
    delivered,            \* the termination signals received so far
    cleanups,             \* the server's cleanup() calls, see NoCleanups
    onceRunning,          \* launch cleanup handlers suspended in close()
    exited,               \* process.exit has been called
    job,                  \* the tool call followed in detail, see NoJob
    util                  \* the utility function being called, see NoCall

vars == <<browserInstance, browserLaunchPromise, activePages, launch,
          nextLaunch, reqs, others, sdpc, shutdownRan, releaseThrew,
          closeThrew, onceHandlers, delivered, cleanups, onceRunning, exited,
          job, util>>

mgr == <<browserInstance, browserLaunchPromise, activePages, launch, nextLaunch>>
sigs == <<delivered, cleanups, onceRunning, exited>>
shut == <<sdpc, shutdownRan, closeThrew, onceHandlers, sigs, job, util>>

\* The termination signals the process handles.
Signal == {"SIGINT", "SIGTERM"}

\* The server's cleanup() calls in progress:
\*   closing   suspended inside closeBrowser, at `await close()`
\*   returned  closeBrowser has returned to them (process.exit comes next)
NoCleanups == [closing |-> 0, returned |-> 0]

Max(a, b) == IF a >= b THEN a ELSE b

\* A conversion at its start.
\*   pc       where the call is suspended
\*   ticket   acquirePage's `browser`: the launch awaited / browser obtained
\*   healthy  getBrowser's `healthy`
\*   page     generatePdf's `page` is non-null
\*   acquired acquirePage returned a page to this call
\*   releases executions of releasePage for its page
\*   outcome  the error caught / the result returned (visible when done)
NewRequest ==
    [pc |-> "prepare", ticket |-> 0, healthy |-> FALSE, page |-> FALSE,
     acquired |-> FALSE, releases |-> 0, outcome |-> "none"]

Requests == BagToSet(reqs)

\* Number of conversions in the bag that satisfy Test.
CountOf(Test(_)) ==
    LET S == {r \in Requests : Test(r)}
    IN  IF S = {} THEN 0 ELSE BagCardinality([r \in S |-> reqs[r]])

\* The conversion r goes on as r2.
move(r, r2) == reqs' = (reqs (-) SetToBag({r})) (+) SetToBag({r2})

\* ------------------------------------------------- the tool call in detail
\* estimatePageCount's divisor, 75 * 1024.
BYTES_PER_PAGE == 76800

\* Sizes of the produced PDF, around the page-count estimate's steps.
PdfSizes == {1, BYTES_PER_PAGE, BYTES_PER_PAGE + 1}

\* A string argument is absent (undefined), "" (empty), whitespace only
\* (blank) or has text.
ContentValues == {"absent", "empty", "blank", "text"}
PathValues == {"absent", "empty", "given"}
Inputs ==
    [markdown_content : ContentValues,
     markdown_file_path : PathValues,
     markdown_url : PathValues]

\* JavaScript truthiness of a string argument.
Boolean(v) == v \notin {"absent", "empty"}

\* What getErrorSuggestion looks for in the lower-cased message.
Keywords ==
    {"enoent", "no such file", "eacces", "permission denied", "timeout",
     "timed out", "fetch", "network", "markdown", "parse", "browser",
     "chromium", "enospc", "no space", "invalid", "validation"}

\* An error message: its text, and which of the keywords occur in it.
\* Messages built by Node and Playwright, by what they contain.
LibraryMessages ==
    { [text |-> "library error", tokens |-> {}],
      [text |-> "Timeout exceeded", tokens |-> {"timeout"}],
      [text |-> "ENOENT: no such file or directory",
       tokens |-> {"enoent", "no such file"}],
      [text |-> "EACCES: permission denied",
       tokens |-> {"eacces", "permission denied"}],
      [text |-> "Target page, context or browser has been closed",
       tokens |-> {"browser"}] }

\* readMarkdownFile's error for a missing file (the path has no keyword).
fileNotFoundMessage ==
    [text |-> "Markdown file not found: <path>", tokens |-> {"markdown"}]

\* fetchMarkdownUrl's error.
fetchFailedMessage(m) ==
    [text |-> "Failed to fetch markdown from URL: <message>",
     tokens |-> {"fetch", "markdown"} \cup m.tokens]

\* ensureOutputDirectory's and loadTheme's errors.
outputDirectoryMessage(m) ==
    [text |-> "Failed to create output directory: <message>",
     tokens |-> m.tokens]
loadThemeMessage(m) ==
    [text |-> "Failed to load theme <name>: <message>", tokens |-> m.tokens]

\* acquirePage's and getBrowser's errors.
quotaMessage ==
    [text |-> "Maximum concurrent pages (10) reached. Too many PDF conversions in progress. Please try again later.",
     tokens |-> {}]
launchFailedMessage(m) ==
    [text |-> "Failed to launch browser: <message>. Ensure Playwright Chromium is installed: pnpm exec playwright install chromium",
     tokens |-> {"browser", "chromium"} \cup m.tokens]

\* The messages an error of the given kind can carry.
MessagesOf(kind) ==
    CASE kind = "quota" -> {quotaMessage}
      [] kind = "launchFailed" -> {launchFailedMessage(m) : m \in LibraryMessages}
      [] kind = "prepareFailed" ->
            {outputDirectoryMessage(m) : m \in LibraryMessages}
              \cup {loadThemeMessage(m) : m \in LibraryMessages}
              \cup LibraryMessages
      [] OTHER -> LibraryMessages

\* getErrorSuggestion: the first category whose keywords occur.
getErrorSuggestion(m) ==
    LET has(k) == k \in m.tokens
    IN  IF has("enoent") \/ has("no such file")
          THEN "File not found. Check if the path is correct and the file exists. Use an absolute path for reliability."
        ELSE IF has("eacces") \/ has("permission denied")
          THEN "Permission denied. Ensure you have write access to the output directory. Try a different output path."
        ELSE IF has("timeout") \/ has("timed out")
          THEN "Request timed out. Try setting wait_for_network_idle: false or check your network connection."
        ELSE IF has("fetch") \/ has("network")
          THEN "Network error while fetching remote content. Check the URL and your internet connection."
        ELSE IF has("markdown") \/ has("parse")
          THEN "Invalid markdown syntax. Review the markdown content for formatting errors."
        ELSE IF has("browser") \/ has("chromium")
          THEN "Browser error. Ensure Playwright Chromium is installed: pnpm exec playwright install chromium"
        ELSE IF has("enospc") \/ has("no space")
          THEN "Not enough disk space. Free up some space and try again."
        ELSE IF has("invalid") \/ has("validation")
          THEN "Invalid input parameters. Check the parameter values and try again."
        ELSE "An unexpected error occurred. Check the error message for details and try again."

\* A result of convertMarkdownToPdf (status "none": no result yet).
NoResult ==
    [status |-> "none", error |-> "", suggestion |-> "", pages |-> 0,
     metadata |-> FALSE, warnings |-> {}, bytes |-> 0]
ErrorResponse(text, suggestion) ==
    [NoResult EXCEPT !.status = "error", !.error = text,
                     !.suggestion = suggestion]

\* createErrorResponse.
createErrorResponse(m) == ErrorResponse(m.text, getErrorSuggestion(m))

\* validateInputSource without its second test.
validateInputSource_atLeastOne(in) ==
    LET sources == {f \in DOMAIN in : Boolean(in[f])}
    IN  IF Cardinality(sources) = 0
          THEN [valid |-> FALSE,
                result |-> ErrorResponse("No input source provided",
                    "Provide one of: markdown_content, markdown_file_path, or markdown_url")]
        ELSE [valid |-> TRUE, result |-> NoResult]

\* validateInputSource: exactly one truthy source.
validateInputSource(in) ==
    LET sources == {f \in DOMAIN in : Boolean(in[f])}
    IN  IF Cardinality(sources) = 0
          THEN [valid |-> FALSE,
                result |-> ErrorResponse("No input source provided",
                    "Provide one of: markdown_content, markdown_file_path, or markdown_url")]
        ELSE IF Cardinality(sources) > 1
          THEN [valid |-> FALSE,
                result |-> ErrorResponse("Multiple input sources provided",
                    "Provide only ONE of: markdown_content, markdown_file_path, or markdown_url")]
        ELSE [valid |-> TRUE, result |-> NoResult]

\* convertMarkdownToPdf step 3.
emptyContentResponse ==
    ErrorResponse("Markdown content is empty",
                  "Provide non-empty markdown content to convert")

\* estimatePageCount, on the size of the file.
estimatePageCount(fileSize) ==
    Max(1, (fileSize + BYTES_PER_PAGE - 1) \div BYTES_PER_PAGE)

\* gatherStats' return value: no page count, one warning if images are
\* missing.
NoStats == [pages |-> 0, missingImages |-> FALSE, warnings |-> {}]
gatherStats_result(missingImages) ==
    [pages |-> 0,
     missingImages |-> missingImages,
     warnings |-> IF missingImages THEN {"image(s) failed to load"} ELSE {}]

\* The tool call followed in detail, before it is made.
\*   pc      "idle", "reading" (file or URL), "generating", "returned"
\*   input   the three source arguments
\*   read    what has been read: "none", "file", "url"
\*   missing the file read did not exist
\*   step    the page operation generatePdf is at
\*   waited  outcome of the highlight wait: "none", "ok", "timeout"
\*   bytes   pdfBuffer.length
\*   stats   gatherStats' return value
\*   result  what convertMarkdownToPdf returned
NoJob ==
    [pc |-> "idle",
     input |-> [markdown_content |-> "absent", markdown_file_path |-> "absent",
                markdown_url |-> "absent"],
     read |-> "none", missing |-> FALSE, step |-> "none", waited |-> "none",
     bytes |-> 0, stats |-> NoStats, result |-> NoResult]

\* No utility function is being called.
NoCall == [fn |-> "none", arg |-> <<>>, out |-> <<>>]

\* ------------------------------------------------------------------- Init
\* The module's globals after load (null, null, 0), or the same process a
\* little later: browser 1 launched and healthy, `others` pages held on it.
InitWith(held) ==
    /\ others \in held
    /\ browserInstance = (IF others > 0 THEN 1 ELSE 0)
    /\ nextLaunch = 1
    /\ launch = [l \in Launch |-> IF l = 1 /\ others > 0 THEN "live" ELSE "none"]
    /\ browserLaunchPromise = 0
    /\ activePages = others
    /\ reqs = EmptyBag
    /\ sdpc = "idle"
    /\ shutdownRan = FALSE
    /\ releaseThrew = FALSE
    /\ closeThrew = FALSE
    /\ onceHandlers = [s \in Signal |-> IF others > 0 THEN 1 ELSE 0]
    /\ delivered = {}
    /\ cleanups = NoCleanups
    /\ onceRunning = 0
    /\ exited = FALSE
    /\ job = NoJob
    /\ util = NoCall

Init == InitWith(InitialHeld)

\* ------------------------------------------------- pure parts of the code
\* A health check that never fails.
isBrowserHealthy_always(b) == TRUE

\* isBrowserHealthy: contexts() does not throw and isConnected() is true.
\* A browser whose close() is still pending is still connected.
isBrowserHealthy(b) == launch[b] \in {"live", "closing"}

\* acquirePage's admission test.
quotaReached(n) == n >= MAX_CONCURRENT_PAGES

\* The finally block without the clamp.
decrementUnclamped(n) == n - 1

\* releasePage's finally block.
decrementActivePages(n) == Max(0, n - 1)

\* releasePage's try/catch around page.close(): the fault is swallowed.
releasePageThrows(closeOk) == FALSE

\* getBrowser without its step 1.
launchPendingIgnored(promise) == FALSE

\* getBrowser step 1: a launch promise is set, so wait for it.
launchPending(promise) == promise # 0

\* browser.newPage() can succeed only on a browser that is up.
browserUp(b) == b # 0 /\ launch[b] = "live"

\* A catch block that releases without looking at `page`.
catchReleases_always(pg) == TRUE

\* generatePdf's catch block: release the page if there is one, then rethrow.
catchReleases(pg) == pg

\* generatePdf's finally block: release the page if `page` is still set.
finallyReleases(pg) == pg

\* A try block without catch and finally: the error surfaces at once.
generatePdf_noCleanup(r, kind) ==
    [r EXCEPT !.outcome = kind, !.pc = "done", !.ticket = 0, !.healthy = FALSE]

\* A stage of generatePdf's try block throws `kind`: the catch block releases
\* the page if it is set, else the finally block does, else the error reaches
\* convertMarkdownToPdf's catch and becomes the error result.  acquirePage's
\* locals are gone.
generatePdf_catch(r, kind) ==
    [r EXCEPT !.outcome = kind,
              !.ticket = 0,
              !.healthy = FALSE,
              !.pc = IF catchReleases(r.page) THEN "catchRelease"
                     ELSE IF finallyReleases(r.page) THEN "finallyRelease"
                     ELSE "done"]

\* ------------------------------------------------------------ acquirePage
\* getBrowser step 3: start chromium.launch() and publish its promise; the
\* conversion r goes on as r1, waiting for that launch.
startLaunch(r, r1) ==
    /\ nextLaunch <= MaxLaunches
    /\ nextLaunch' = nextLaunch + 1
    /\ launch' = [launch EXCEPT ![nextLaunch + 1] = "inflight"]
    /\ browserLaunchPromise' = nextLaunch + 1
    /\ move(r, [r1 EXCEPT !.pc = "awaitLaunch", !.ticket = nextLaunch + 1])

\* getBrowser up to its first await.
getBrowser_enter(r) ==
    IF launchPending(browserLaunchPromise)
    THEN /\ move(r, [r EXCEPT !.pc = "awaitLaunch",
                              !.ticket = browserLaunchPromise])
         /\ UNCHANGED <<browserInstance, browserLaunchPromise, launch, nextLaunch>>
    ELSE IF browserInstance # 0
    THEN /\ move(r, [r EXCEPT !.pc = "awaitHealth",
                              !.healthy = isBrowserHealthy(browserInstance)])
         /\ UNCHANGED <<browserInstance, browserLaunchPromise, launch, nextLaunch>>
    ELSE /\ startLaunch(r, r)
         /\ UNCHANGED browserInstance

\* acquirePage up to its first await.
acquirePage_enter(r) ==
    IF quotaReached(activePages)
    THEN /\ move(r, generatePdf_catch(r, "quota"))
         /\ UNCHANGED <<browserInstance, browserLaunchPromise, launch, nextLaunch>>
    ELSE getBrowser_enter(r)

\* ---------------------------------------------------------------- actions
\* convertMarkdownToPdf is called and reaches generatePdf's first await.
convert_start ==
    /\ BagCardinality(reqs) < NumRequests
    /\ reqs' = reqs (+) SetToBag({NewRequest})
    /\ UNCHANGED <<mgr, others, shut, releaseThrew>>

\* The caller has the result of a finished conversion.
convert_returned(r) ==
    /\ r.pc = "done"
    /\ reqs' = reqs (-) SetToBag({r})
    /\ UNCHANGED <<mgr, others, shut, releaseThrew>>

\* generatePdf steps 1-4 succeed and acquirePage is entered.
generatePdf_prepared(r) ==
    /\ r.pc = "prepare"
    /\ acquirePage_enter(r)
    /\ UNCHANGED <<activePages, others, shut, releaseThrew>>

\* generatePdf steps 1-4 fail (directory, markdown, theme, template).
generatePdf_prepareFails(r) ==
    /\ r.pc = "prepare"
    /\ move(r, generatePdf_catch(r, "prepareFailed"))
    /\ UNCHANGED <<mgr, others, shut, releaseThrew>>

\* getBrowser resumes after `await isBrowserHealthy(...)`.
getBrowser_afterHealth(r) ==
    /\ r.pc = "awaitHealth"
    /\ IF r.healthy
       THEN \* return browserInstance; acquirePage calls newPage() on it
            /\ IF browserInstance = 0
               THEN move(r, generatePdf_catch(r, "newPageFailed"))
               ELSE move(r, [r EXCEPT !.pc = "newPage", !.healthy = FALSE,
                                      !.ticket = browserInstance])
            /\ UNCHANGED <<browserInstance, browserLaunchPromise, launch,
                           nextLaunch>>
       ELSE /\ browserInstance' = 0
            /\ startLaunch(r, [r EXCEPT !.healthy = FALSE])
    /\ UNCHANGED <<activePages, others, shut, releaseThrew>>

\* chromium.launch() settles: the body of the launch promise runs to its end.
getBrowser_launchSettles(l, ok) ==
    /\ launch[l] = "inflight"
    /\ launch' = [launch EXCEPT ![l] = IF ok THEN "live" ELSE "failed"]
    /\ browserInstance' = (IF ok THEN l ELSE 0)
    /\ onceHandlers' = (IF ok THEN [s \in Signal |-> onceHandlers[s] + 1]
                              ELSE onceHandlers)
    /\ browserLaunchPromise' = 0
    /\ UNCHANGED <<activePages, nextLaunch, reqs, others, sdpc, shutdownRan,
                   closeThrew, sigs, releaseThrew, job, util>>

\* acquirePage resumes after `await getBrowser()` on a settled launch.
acquirePage_afterLaunch(r) ==
    /\ r.pc = "awaitLaunch"
    /\ launch[r.ticket] # "inflight"
    /\ IF launch[r.ticket] = "failed"
       THEN move(r, generatePdf_catch(r, "launchFailed"))
       ELSE move(r, [r EXCEPT !.pc = "newPage"])
    /\ UNCHANGED <<mgr, others, shut, releaseThrew>>

\* browser.newPage() settles; on success the counter is incremented, the
\* page goes to generatePdf and the page operations of its try block start.
acquirePage_afterNewPage(r, ok) ==
    /\ r.pc = "newPage"
    /\ ok => browserUp(r.ticket)
    /\ IF ok
       THEN /\ activePages' = activePages + 1
            /\ move(r, [r EXCEPT !.pc = "render", !.ticket = 0,
                                 !.page = TRUE, !.acquired = TRUE])
       ELSE /\ move(r, generatePdf_catch(r, "newPageFailed"))
            /\ UNCHANGED activePages
    /\ UNCHANGED <<browserInstance, browserLaunchPromise, launch, nextLaunch,
                   others, shut, releaseThrew>>

\* The page operations of the try block (setViewportSize, setContent,
\* waitForFunction, pdf, gatherStats) touch only the conversion's own page:
\* they end with all of them done and releasePage(page) called (step 11), or
\* with one of them throwing.
generatePdf_rendered(r, ok) ==
    /\ r.pc = "render"
    /\ IF ok
       THEN move(r, [r EXCEPT !.pc = "release"])
       ELSE move(r, generatePdf_catch(r, "renderFailed"))
    /\ UNCHANGED <<mgr, others, shut, releaseThrew>>

\* releasePage resumes after `await page.close()` and runs its finally.
releasePage_finally(closeOk) ==
    /\ activePages' = decrementActivePages(activePages)
    /\ releaseThrew' = (releaseThrew \/ releasePageThrows(closeOk))

\* Step 11 completes: page = null, the response is built and returned.
generatePdf_released(r, closeOk) ==
    /\ r.pc = "release"
    /\ releasePage_finally(closeOk)
    /\ move(r, [r EXCEPT !.pc = "done", !.page = FALSE,
                         !.releases = @ + 1, !.outcome = "success"])
    /\ UNCHANGED <<browserInstance, browserLaunchPromise, launch, nextLaunch,
                   others, shut>>

\* The catch block's releasePage completes; the error is rethrown and the
\* finally block looks at `page`.
generatePdf_catchReleased(r, closeOk) ==
    /\ r.pc = "catchRelease"
    /\ releasePage_finally(closeOk)
    /\ move(r, [r EXCEPT !.releases = @ + 1,
                         !.pc = IF finallyReleases(r.page)
                                THEN "finallyRelease" ELSE "done"])
    /\ UNCHANGED <<browserInstance, browserLaunchPromise, launch, nextLaunch,
                   others, shut>>

\* The finally block's releasePage completes; convertMarkdownToPdf's catch
\* turns the rethrown error into an error result.
generatePdf_finallyReleased(r, closeOk) ==
    /\ r.pc = "finallyRelease"
    /\ releasePage_finally(closeOk)
    /\ move(r, [r EXCEPT !.releases = @ + 1, !.pc = "done"])
    /\ UNCHANGED <<browserInstance, browserLaunchPromise, launch, nextLaunch,
                   others, shut>>

\* The browser process dies or its connection drops: it is gone, as after
\* close().
browserCrash(b) ==
    /\ launch[b] = "live"
    /\ launch' = [launch EXCEPT ![b] = "closed"]
    /\ UNCHANGED <<browserInstance, browserLaunchPromise, activePages,
                   nextLaunch, reqs, others, shut, releaseThrew>>

\* closeBrowser's `.catch(() => {})` on close(): the fault is swallowed.
closeBrowserThrows(closeOk) == FALSE

\* closeBrowser's tail without the counter reset.
closeBrowser_resetPromiseOnly ==
    /\ browserLaunchPromise' = 0
    /\ UNCHANGED activePages

\* closeBrowser's tail: clear the launch promise and reset the counter.
closeBrowser_reset ==
    /\ browserLaunchPromise' = 0
    /\ activePages' = 0

\* closeBrowser from the point where `await close()` has settled: the
\* browsers being closed are gone, the session reference is dropped.
closeBrowser_afterClose(closeOk) ==
    /\ launch' = [l \in Launch |->
                    IF launch[l] = "closing" THEN "closed" ELSE launch[l]]
    /\ browserInstance' = 0
    /\ closeBrowser_reset
    /\ closeThrew' = (closeThrew \/ closeBrowserThrows(closeOk))

\* closeBrowser is called: without a session it runs to its end, with one
\* it calls close() on it and suspends.
closeBrowser_enter ==
    /\ sdpc = "idle"
    /\ shutdownRan' = TRUE
    /\ IF browserInstance # 0
       THEN /\ sdpc' = "closing"
            /\ launch' = [launch EXCEPT ![browserInstance] =
                            IF @ = "live" THEN "closing" ELSE @]
            /\ UNCHANGED <<browserInstance, browserLaunchPromise, activePages>>
       ELSE /\ closeBrowser_reset
            /\ UNCHANGED <<sdpc, launch, browserInstance>>
    /\ UNCHANGED <<nextLaunch, reqs, others, releaseThrew, job, util, closeThrew,
                   onceHandlers, sigs>>

\* closeBrowser resumes after `await browserInstance.close().catch(...)`.
closeBrowser_resume(closeOk) ==
    /\ sdpc = "closing"
    /\ sdpc' = "idle"
    /\ closeBrowser_afterClose(closeOk)
    /\ UNCHANGED <<nextLaunch, reqs, others, shutdownRan, releaseThrew, job, util,
                   onceHandlers, sigs>>

\* ------------------------------------------------------ process lifecycle
\* cleanup() calling process.exit without awaiting closeBrowser.
cleanupExitsEarly(c) == c.closing + c.returned > 0

\* cleanup(): process.exit(0) follows `await closeBrowser()`.
cleanupMayExit(c) == c.returned > 0

\* The process receives signal s (each signal at most once in a behaviour)
\* and runs its listeners in the order of
\* registration, each up to its first await: the server's cleanup(), which
\* calls closeBrowser, then the cleanup handlers that the launches so far
\* registered with process.once.  With a session every one of them calls
\* close() on it and suspends; without one closeBrowser runs to its end and
\* the handlers reset the counter.
signal(s) ==
    /\ ~exited
    /\ s \notin delivered
    /\ delivered' = delivered \cup {s}
    /\ shutdownRan' = TRUE
    /\ onceHandlers' = [onceHandlers EXCEPT ![s] = 0]
    /\ IF browserInstance # 0
       THEN /\ launch' = [launch EXCEPT ![browserInstance] =
                            IF @ = "live" THEN "closing" ELSE @]
            /\ cleanups' = [cleanups EXCEPT !.closing = @ + 1]
            /\ onceRunning' = onceRunning + onceHandlers[s]
            /\ UNCHANGED <<browserInstance, browserLaunchPromise, activePages>>
       ELSE /\ closeBrowser_reset
            /\ cleanups' = [cleanups EXCEPT !.returned = @ + 1]
            /\ UNCHANGED <<launch, browserInstance, onceRunning>>
    /\ UNCHANGED <<nextLaunch, reqs, others, sdpc, releaseThrew, job, util, closeThrew,
                   exited>>

\* A closeBrowser called by cleanup() resumes after `await close()` and
\* returns to cleanup().
cleanup_closeBrowserReturns(closeOk) ==
    /\ ~exited
    /\ cleanups.closing > 0
    /\ closeBrowser_afterClose(closeOk)
    /\ cleanups' = [closing |-> cleanups.closing - 1,
                    returned |-> cleanups.returned + 1]
    /\ UNCHANGED <<nextLaunch, reqs, others, sdpc, shutdownRan, releaseThrew, job, util,
                   onceHandlers, delivered, onceRunning, exited>>

\* A cleanup handler registered by a launch resumes after `await close()`.
getBrowser_cleanupResumes ==
    /\ ~exited
    /\ onceRunning > 0
    /\ onceRunning' = onceRunning - 1
    /\ launch' = [l \in Launch |->
                    IF launch[l] = "closing" THEN "closed" ELSE launch[l]]
    /\ browserInstance' = 0
    /\ activePages' = 0
    /\ UNCHANGED <<browserLaunchPromise, nextLaunch, reqs, others, sdpc,
                   shutdownRan, releaseThrew, job, util, closeThrew, onceHandlers,
                   delivered, cleanups, exited>>

\* cleanup() resumes after `await closeBrowser()`: process.exit(0).
cleanup_exit ==
    /\ ~exited
    /\ cleanupMayExit(cleanups)
    /\ exited' = TRUE
    /\ UNCHANGED <<mgr, reqs, others, sdpc, shutdownRan, releaseThrew, job, util,
                   closeThrew, onceHandlers, delivered, cleanups, onceRunning>>

Next ==
    \/ convert_start
    \/ \E r \in Requests : convert_returned(r)
    \/ \E r \in Requests : generatePdf_prepared(r)
    \/ \E r \in Requests : generatePdf_prepareFails(r)
    \/ \E r \in Requests : getBrowser_afterHealth(r)
    \/ \E l \in Launch, ok \in BOOLEAN : getBrowser_launchSettles(l, ok)
    \/ \E r \in Requests : acquirePage_afterLaunch(r)
    \/ \E r \in Requests, ok \in BOOLEAN : acquirePage_afterNewPage(r, ok)
    \/ \E r \in Requests, ok \in BOOLEAN : generatePdf_rendered(r, ok)
    \/ \E r \in Requests, ok \in BOOLEAN : generatePdf_released(r, ok)
    \/ \E r \in Requests, ok \in BOOLEAN : generatePdf_catchReleased(r, ok)
    \/ \E r \in Requests, ok \in BOOLEAN : generatePdf_finallyReleased(r, ok)
    \/ \E b \in Launch : browserCrash(b)
    \/ closeBrowser_enter
    \/ \E ok \in BOOLEAN : closeBrowser_resume(ok)

Spec == Init /\ [][Next]_vars

\* The server process as it is wired: conversions run, closeBrowser is
\* called by cleanup() only, and nothing runs once the process has exited.
SignalNext ==
    \/ ~exited /\ convert_start
    \/ ~exited /\ \E r \in Requests : convert_returned(r)
    \/ ~exited /\ \E r \in Requests : generatePdf_prepared(r)
    \/ ~exited /\ \E r \in Requests : getBrowser_afterHealth(r)
    \/ ~exited /\ \E l \in Launch, ok \in BOOLEAN : getBrowser_launchSettles(l, ok)
    \/ ~exited /\ \E r \in Requests : acquirePage_afterLaunch(r)
    \/ ~exited /\ \E r \in Requests, ok \in BOOLEAN : acquirePage_afterNewPage(r, ok)
    \/ ~exited /\ \E r \in Requests, ok \in BOOLEAN : generatePdf_rendered(r, ok)
    \/ ~exited /\ \E r \in Requests, ok \in BOOLEAN : generatePdf_released(r, ok)
    \/ ~exited /\ \E r \in Requests, ok \in BOOLEAN : generatePdf_catchReleased(r, ok)
    \/ ~exited /\ \E r \in Requests, ok \in BOOLEAN : generatePdf_finallyReleased(r, ok)
    \/ \E s \in Signal : signal(s)
    \/ \E ok \in BOOLEAN : cleanup_closeBrowserReturns(ok)
    \/ getBrowser_cleanupResumes
    \/ cleanup_exit

SignalSpec == Init /\ [][SignalNext]_vars

\* ------------------------------------------- one tool call, stage by stage
\* What the actions of the tool call leave alone.
rest == <<others, sdpc, shutdownRan, closeThrew, onceHandlers, sigs,
          releaseThrew, util>>

\* The content goes to generatePdf without the test for emptiness.
convert_withContent_unchecked(content, j) ==
    /\ job' = [j EXCEPT !.pc = "generating", !.step = "viewport"]
    /\ reqs' = reqs (+) SetToBag({NewRequest})

\* convertMarkdownToPdf steps 3-5 with the markdown content at hand: empty
\* after trim() is an error result, else generatePdf is called and runs to
\* its first await.
convert_withContent(content, j) ==
    IF content \in {"empty", "blank"}
    THEN /\ job' = [j EXCEPT !.pc = "returned", !.result = emptyContentResponse]
         /\ UNCHANGED reqs
    ELSE /\ job' = [j EXCEPT !.pc = "generating", !.step = "viewport"]
         /\ reqs' = reqs (+) SetToBag({NewRequest})

\* A source counts once its argument is anything but undefined.
selectSource_defined(in) ==
    IF in.markdown_content # "absent" THEN "markdown_content"
    ELSE IF in.markdown_file_path # "absent" THEN "markdown_file_path"
    ELSE IF in.markdown_url # "absent" THEN "markdown_url"
    ELSE "none"

\* convertMarkdownToPdf step 2, the if / else-if chain: the first source
\* whose argument is truthy, "none" when the final else is taken.
selectSource(in) ==
    IF Boolean(in.markdown_content) THEN "markdown_content"
    ELSE IF Boolean(in.markdown_file_path) THEN "markdown_file_path"
    ELSE IF Boolean(in.markdown_url) THEN "markdown_url"
    ELSE "none"

\* convertMarkdownToPdf is called and runs to its first await or its return.
convert_call(in) ==
    /\ job.pc = "idle"
    /\ LET v == validateInputSource(in)
           j == [job EXCEPT !.input = in]
       IN  IF ~v.valid
             THEN /\ job' = [j EXCEPT !.pc = "returned", !.result = v.result]
                  /\ UNCHANGED reqs
           ELSE IF selectSource(in) = "markdown_content"
             THEN convert_withContent(in.markdown_content, j)
           ELSE IF selectSource(in) = "markdown_file_path"
             THEN /\ job' = [j EXCEPT !.pc = "reading", !.read = "file"]
                  /\ UNCHANGED reqs
           ELSE IF selectSource(in) = "markdown_url"
             THEN /\ job' = [j EXCEPT !.pc = "reading", !.read = "url"]
                  /\ UNCHANGED reqs
           ELSE /\ job' = [j EXCEPT !.pc = "returned",
                                    !.result = validateInputSource(NoJob.input).result]
                /\ UNCHANGED reqs
    /\ UNCHANGED <<mgr, rest>>

\* readMarkdownFile / fetchMarkdownUrl return the content.
convert_contentRead(content) ==
    /\ job.pc = "reading"
    /\ convert_withContent(content, job)
    /\ UNCHANGED <<mgr, rest>>

\* readMarkdownFile finds no file (ENOENT) and throws its own error.
convert_fileNotFound ==
    /\ job.pc = "reading"
    /\ job.read = "file"
    /\ job' = [job EXCEPT !.pc = "returned", !.missing = TRUE,
                          !.result = createErrorResponse(fileNotFoundMessage)]
    /\ UNCHANGED <<mgr, reqs, rest>>

\* readMarkdownFile rethrows another error of readFile; fetchMarkdownUrl
\* wraps the error of fetch (or its own HTTP status error).
convert_readFailed(m) ==
    /\ job.pc = "reading"
    /\ job.read = "file" => "enoent" \notin m.tokens
    /\ job' = [job EXCEPT
                 !.pc = "returned",
                 !.result = createErrorResponse(
                     IF job.read = "file" THEN m ELSE fetchFailedMessage(m))]
    /\ UNCHANGED <<mgr, reqs, rest>>

\* The page operations skipping page.pdf.
nextStepSkipsPdf(step) ==
    CASE step = "viewport" -> "setContent"
      [] step = "setContent" -> "waitForFunction"
      [] step = "waitForFunction" -> "gatherStats"
      [] step = "pdf" -> "gatherStats"
      [] step = "gatherStats" -> "releasePage"

\* The page operation that follows `step` in generatePdf's try block.
nextStep(step) ==
    CASE step = "viewport" -> "setContent"
      [] step = "setContent" -> "waitForFunction"
      [] step = "waitForFunction" -> "pdf"
      [] step = "pdf" -> "gatherStats"
      [] step = "gatherStats" -> "releasePage"

\* Step 7 without its try/catch: only a successful wait goes on.
highlightWaitUncaught(ok) == ok

\* Step 7's try/catch: generatePdf goes on whatever the wait did.
highlightWaitCaught(ok) == TRUE

\* page.setViewportSize settles.
generatePdf_viewportSet(r, ok) ==
    /\ r.pc = "render"
    /\ job.step = "viewport"
    /\ IF ok
       THEN job' = [job EXCEPT !.step = nextStep(@)] /\ UNCHANGED reqs
       ELSE move(r, generatePdf_catch(r, "viewportFailed")) /\ UNCHANGED job
    /\ UNCHANGED <<mgr, rest>>

\* page.setContent settles (step 6).
generatePdf_contentLoaded(r, ok) ==
    /\ r.pc = "render"
    /\ job.step = "setContent"
    /\ IF ok
       THEN job' = [job EXCEPT !.step = nextStep(@)] /\ UNCHANGED reqs
       ELSE move(r, generatePdf_catch(r, "loadFailed")) /\ UNCHANGED job
    /\ UNCHANGED <<mgr, rest>>

\* page.waitForFunction settles (step 7): a timeout or fault is caught and
\* logged, and page.pdf is called in either case.
generatePdf_highlightWaited(r, ok) ==
    /\ r.pc = "render"
    /\ job.step = "waitForFunction"
    /\ IF highlightWaitCaught(ok)
       THEN /\ job' = [job EXCEPT !.step = nextStep(@),
                                  !.waited = IF ok THEN "ok" ELSE "timeout"]
            /\ UNCHANGED reqs
       ELSE /\ move(r, generatePdf_catch(r, "highlightFailed"))
            /\ job' = [job EXCEPT !.waited = "timeout"]
    /\ UNCHANGED <<mgr, rest>>

\* page.pdf settles (step 9).
generatePdf_pdfProduced(r, ok, size) ==
    /\ r.pc = "render"
    /\ job.step = "pdf"
    /\ IF ok
       THEN job' = [job EXCEPT !.step = nextStep(@), !.bytes = size]
            /\ UNCHANGED reqs
       ELSE move(r, generatePdf_catch(r, "pdfFailed")) /\ UNCHANGED job
    /\ UNCHANGED <<mgr, rest>>

\* gatherStats settles (step 10); on success releasePage is called.
generatePdf_statsGathered(r, ok, missingImages) ==
    /\ r.pc = "render"
    /\ job.step = "gatherStats"
    /\ IF ok
       THEN /\ job' = [job EXCEPT !.step = nextStep(@),
                                  !.stats = gatherStats_result(missingImages)]
            /\ move(r, [r EXCEPT !.pc = "release"])
       ELSE /\ move(r, generatePdf_catch(r, "statsFailed"))
            /\ UNCHANGED job
    /\ UNCHANGED <<mgr, rest>>

\* response_format, fixed by the call and read when the response is built.
ResponseFormats == {"concise", "detailed"}

\* generatePdf steps 12-13: the success response; the metadata, and in it
\* the warnings, are there in detailed mode only.
generatePdf_response(j, responseFormat) ==
    [NoResult EXCEPT !.status = "success", !.pages = j.stats.pages,
                     !.metadata = (responseFormat = "detailed"),
                     !.warnings = IF responseFormat = "detailed"
                                     THEN j.stats.warnings
                                     ELSE {},
                     !.bytes = j.bytes]

\* What generatePdf can throw for an error of the given kind.
NonError == [isError |-> FALSE, message |-> [text |-> "", tokens |-> {}]]

\* A generatePdf whose promise settles for a success only.
ThrownBy_nothing(kind) ==
    IF kind = "success" THEN {NonError} ELSE {}

ThrownBy(kind) ==
    {[isError |-> TRUE, message |-> m] : m \in MessagesOf(kind)}
      \cup (IF kind \in {"quota", "launchFailed"} THEN {} ELSE {NonError})

\* convertMarkdownToPdf without its catch block.
convert_rethrows(t) == [NoResult EXCEPT !.status = "raised"]

\* convertMarkdownToPdf's catch block.
convert_catch(t) ==
    IF t.isError
    THEN createErrorResponse(t.message)
    ELSE ErrorResponse("An unexpected error occurred",
                       "Check the input parameters and try again")

\* generatePdf has settled: convertMarkdownToPdf returns its response, or
\* the error result for what it threw.
convert_result(r, t, responseFormat) ==
    /\ job.pc = "generating"
    /\ r.pc = "done"
    /\ reqs' = reqs (-) SetToBag({r})
    /\ job' = [job EXCEPT
                 !.pc = "returned",
                 !.result = IF r.outcome = "success"
                            THEN generatePdf_response(job, responseFormat)
                            ELSE convert_catch(t)]
    /\ UNCHANGED <<mgr, rest>>

\* The caller has the result; the next tool call can be followed.
convert_resultDelivered ==
    /\ job.pc = "returned"
    /\ job' = NoJob
    /\ UNCHANGED <<mgr, reqs, rest>>

PipelineInit == InitWith(InitialHeld \cup {MAX_CONCURRENT_PAGES})

PipelineNext ==
    \/ \E in \in Inputs : convert_call(in)
    \/ \E c \in {"empty", "blank", "text"} : convert_contentRead(c)
    \/ convert_fileNotFound
    \/ \E m \in LibraryMessages : convert_readFailed(m)
    \/ \E r \in Requests : generatePdf_prepared(r)
    \/ \E r \in Requests : generatePdf_prepareFails(r)
    \/ \E r \in Requests : getBrowser_afterHealth(r)
    \/ \E l \in Launch, ok \in BOOLEAN : getBrowser_launchSettles(l, ok)
    \/ \E r \in Requests : acquirePage_afterLaunch(r)
    \/ \E r \in Requests, ok \in BOOLEAN : acquirePage_afterNewPage(r, ok)
    \/ \E r \in Requests, ok \in BOOLEAN : generatePdf_viewportSet(r, ok)
    \/ \E r \in Requests, ok \in BOOLEAN : generatePdf_contentLoaded(r, ok)
    \/ \E r \in Requests, ok \in BOOLEAN : generatePdf_highlightWaited(r, ok)
    \/ \E r \in Requests, ok \in BOOLEAN, size \in PdfSizes :
          generatePdf_pdfProduced(r, ok, size)
    \/ \E r \in Requests, ok \in BOOLEAN, missingImages \in BOOLEAN :
          generatePdf_statsGathered(r, ok, missingImages)
    \/ \E r \in Requests, ok \in BOOLEAN : generatePdf_released(r, ok)
    \/ \E r \in Requests, ok \in BOOLEAN : generatePdf_catchReleased(r, ok)
    \/ \E r \in Requests, ok \in BOOLEAN : generatePdf_finallyReleased(r, ok)
    \/ \E r \in Requests, responseFormat \in ResponseFormats :
          \E t \in ThrownBy(r.outcome) : convert_result(r, t, responseFormat)
    \/ convert_resultDelivered
    \/ \E b \in Launch : browserCrash(b)

PipelineSpec == PipelineInit /\ [][PipelineNext]_vars

\* ----------------------------- one tool call while shutdown may be called
\* The inputs that name one source and leave the other two out.
SingleSourceInputs ==
    {in \in Inputs :
        Cardinality({f \in DOMAIN in : in[f] = "absent"}) = 2
          /\ \A f \in DOMAIN in : in[f] # "empty"}

\* A tool call is followed while a launch is left for it to start.
convert_callFollowed(in) ==
    /\ nextLaunch <= MaxLaunches
    /\ convert_call(in)

\* An awaited call of the tool call settles, with success or with an error,
\* and the code behind the await runs to the next one.
convert_continues ==
    \/ \E c \in {"empty", "blank", "text"} : convert_contentRead(c)
    \/ convert_fileNotFound
    \/ \E m \in LibraryMessages : convert_readFailed(m)
    \/ \E r \in Requests : generatePdf_prepared(r)
    \/ \E r \in Requests : generatePdf_prepareFails(r)
    \/ \E r \in Requests : getBrowser_afterHealth(r)
    \/ \E l \in Launch, ok \in BOOLEAN : getBrowser_launchSettles(l, ok)
    \/ \E r \in Requests : acquirePage_afterLaunch(r)
    \/ \E r \in Requests, ok \in BOOLEAN : acquirePage_afterNewPage(r, ok)
    \/ \E r \in Requests, ok \in BOOLEAN : generatePdf_viewportSet(r, ok)
    \/ \E r \in Requests, ok \in BOOLEAN : generatePdf_contentLoaded(r, ok)
    \/ \E r \in Requests, ok \in BOOLEAN : generatePdf_highlightWaited(r, ok)
    \/ \E r \in Requests, ok \in BOOLEAN, size \in PdfSizes :
          generatePdf_pdfProduced(r, ok, size)
    \/ \E r \in Requests, ok \in BOOLEAN, missingImages \in BOOLEAN :
          generatePdf_statsGathered(r, ok, missingImages)
    \/ \E r \in Requests, ok \in BOOLEAN : generatePdf_released(r, ok)
    \/ \E r \in Requests, ok \in BOOLEAN : generatePdf_catchReleased(r, ok)
    \/ \E r \in Requests, ok \in BOOLEAN : generatePdf_finallyReleased(r, ok)
    \/ \E r \in Requests, responseFormat \in ResponseFormats :
          \E t \in ThrownBy(r.outcome) : convert_result(r, t, responseFormat)

ShutdownNext ==
    \/ \E in \in SingleSourceInputs : convert_callFollowed(in)
    \/ convert_continues
    \/ convert_resultDelivered
    \/ \E b \in Launch : browserCrash(b)
    \/ closeBrowser_enter
    \/ \E ok \in BOOLEAN : closeBrowser_resume(ok)

\* Every awaited call settles: the event loop runs the continuation of the
\* tool call, and that of closeBrowser, once it can run.
ShutdownSpec ==
    /\ PipelineInit
    /\ [][ShutdownNext]_vars
    /\ WF_vars(convert_continues)
    /\ WF_vars(\E ok \in BOOLEAN : closeBrowser_resume(ok))

\* ------------------------------------------------------ utility functions
\* The helpers are pure: a call is one step from NoCall to the record of its
\* argument and result, and the return leads back to NoCall.
program == <<mgr, reqs, others, releaseThrew, sdpc, shutdownRan, closeThrew,
             onceHandlers, sigs, job>>

utility_call(fn, arg, out) ==
    /\ util = NoCall
    /\ util' = [fn |-> fn, arg |-> arg, out |-> out]
    /\ UNCHANGED program

utility_returns ==
    /\ util # NoCall
    /\ util' = NoCall
    /\ UNCHANGED program

\* The divisor of formatFileSize: 1024 bytes to the KB, 1024 KB to the MB.
KILO == 1024

\* Number.prototype.toFixed(1) cuts the digit off instead of rounding.
toFixed1_truncating(num, den) ==
    LET n == (num * 10) \div den
    IN  [whole |-> n \div 10, decimals |-> <<n % 10>>]

\* (num / den).toFixed(1): the number of tenths n for which n / 10 is
\* nearest to num / den, the larger n when two are equally near.  den is a
\* power of two, so the quotient is exact in a double.
toFixed1(num, den) ==
    LET n == (num * 20 + den) \div (2 * den)
    IN  [whole |-> n \div 10, decimals |-> <<n % 10>>]

\* A formatted size: the digits before the point, those after it, the unit.
sized(number, unit) ==
    [whole |-> number.whole, decimals |-> number.decimals, unit |-> unit]

formatFileSize(bytes) ==
    IF bytes = 0 THEN [whole |-> 0, decimals |-> <<>>, unit |-> "B"]
    ELSE IF bytes < KILO
            THEN [whole |-> bytes, decimals |-> <<>>, unit |-> "B"]
    ELSE IF bytes < KILO * KILO THEN sized(toFixed1(bytes, KILO), "KB")
    ELSE sized(toFixed1(bytes, KILO * KILO), "MB")

\* Byte counts at and next to the quarter multiples of 1 KB and of 1 MB.
ByteSamples ==
    {0} \cup { (m * u) \div 4 + d : m \in 1..MaxQuarters,
                                    u \in {KILO, KILO * KILO},
                                    d \in {-1, 0, 1} }

formatFileSize_call(bytes) ==
    utility_call("formatFileSize", bytes, formatFileSize(bytes))

\* A template is a sequence of pieces: placeholders and literal text.
Placeholders == {"{page}", "{total}", "{date}", "{title}"}

Templates == UNION { [1..n -> Placeholders \cup {" of "}] : n \in 0..MaxPieces }

\* The variables object: any of the four fields may be missing.  0 and ""
\* are the values JavaScript's || treats like a missing one.
VariableFields == {"page", "total", "date", "title"}

Variables ==
    { [k \in S |-> full[k]] :
          full \in [page : {0, 2}, total : {0, 5},
                    date : {"", "2026-11-03"}, title : {"", "Report"}],
          S \in SUBSET VariableFields }

\* new Date().toLocaleDateString()
today == "toLocaleDateString()"

\* The field's value without a default for the missing one.
orElse_nothing(variables, field, falsy, default) ==
    IF field \in DOMAIN variables THEN variables[field] ELSE falsy

\* variables.date || ... and its like: the field's value unless the field
\* is missing or falsy.
orElse(variables, field, falsy, default) ==
    IF field \in DOMAIN variables /\ variables[field] # falsy
        THEN variables[field]
        ELSE default

\* String(value) of a number: its decimal digits, as one piece.
String(value) == <<ToString(value)>>

\* The empty string contributes no piece to the result.

text(value) == IF value = "" THEN <<>> ELSE <<value>>

\* String.prototype.replace with a /.../g regular expression.
RECURSIVE replaceAll(_, _, _)
replaceAll(template, placeholder, value) ==
    IF template = <<>> THEN <<>>
    ELSE (IF Head(template) = placeholder THEN value ELSE <<Head(template)>>)
             \o replaceAll(Tail(template), placeholder, value)

replaceTemplateVariables(template, variables) ==
    LET page == IF "page" \in DOMAIN variables /\ variables.page # 0
                    THEN String(variables.page) ELSE <<>>
        total == IF "total" \in DOMAIN variables /\ variables.total # 0
                     THEN String(variables.total) ELSE <<>>
        r1 == replaceAll(template, "{page}", page)
        r2 == replaceAll(r1, "{total}", total)
        r3 == replaceAll(r2, "{date}",
                         text(orElse(variables, "date", "", today)))
    IN  replaceAll(r3, "{title}",
                   text(orElse(variables, "title", "", "Document")))

replaceTemplateVariables_call(template, variables) ==
    utility_call("replaceTemplateVariables",
                 <<template, variables>>,
                 replaceTemplateVariables(template, variables))

\* A header or footer configuration with one of its three cells filled in;
\* a missing cell is config.left || '' and its like.
Cells == <<"left", "center", "right">>

HeaderFooters ==
    { [c \in {Cells[i]} |-> template] : i \in 1..3, template \in Templates }

cellOf(config, cell) == IF cell \in DOMAIN config THEN config[cell] ELSE <<>>

\* The template handed to page.pdf: the three cells of its table, each with
\* its placeholders replaced from an empty variables object.
formatHeaderFooter(config) ==
    [i \in 1..3 |-> replaceTemplateVariables(cellOf(config, Cells[i]),
                                             <<>>)]

formatHeaderFooter_call(config) ==
    utility_call("formatHeaderFooter", config, formatHeaderFooter(config))

\* Headings are h1 to h6, and toc_depth is 1 to 6.
MAX_HEADING_LEVEL == 6

\* A document is the sequence of the levels of its headings; a heading is
\* known by its place in the document.
Documents ==
    UNION { [1..n -> 1..MAX_HEADING_LEVEL] : n \in 0..MaxHeadings }

\* The pieces of the table of contents: the opening and closing of a list,
\* and the entry that links to the i-th heading of the document.
ulOpen == <<"<ul>", 0>>

ulClose == <<"</ul>", 0>>

li(i) == <<"<li>", i>>

\* A heading is listed when its level is below the depth.
withinDepth_exclusive(level, maxDepth) == level < maxDepth

\* level <= maxDepth
withinDepth(level, maxDepth) == level <= maxDepth

\* One piece at most, however many levels lie between.
repeated_once(piece, n) == IF n > 0 THEN <<piece>> ELSE <<>>

\* n times the same piece, none when n is not positive.
repeated(piece, n) == [k \in 1..n |-> piece]

\* The loop over the headings kept, and the closing of the lists left open.
RECURSIVE buildToc(_, _, _)
buildToc(document, headings, currentLevel) ==
    IF headings = <<>> THEN repeated(ulClose, currentLevel - 1)
    ELSE LET level == document[Head(headings)]
         IN  repeated(ulOpen, level - currentLevel)
                 \o repeated(ulClose, currentLevel - level)
                 \o <<li(Head(headings))>>
                 \o buildToc(document, Tail(headings), level)

\* The table of contents; the empty sequence is the empty string.
generateToc(document, maxDepth) ==
    LET kept(i) == withinDepth(document[i], maxDepth)
        headings == SelectSeq([i \in 1..Len(document) |-> i], kept)
    IN  IF Len(headings) = 0 THEN <<>>
        ELSE <<ulOpen>> \o buildToc(document, headings, 1) \o <<ulClose>>

generateToc_call(document, maxDepth) ==
    utility_call("generateToc", <<document, maxDepth>>,
                 generateToc(document, maxDepth))

\* An error message as thrown, by the keywords that occur in it: each
\* occurrence is a pair of the keyword and whether it is written in capitals
\* ("ENOENT: no such file or directory").
Words == Keywords \X BOOLEAN

\* The messages with at most n occurrences.
RECURSIVE messagesUpTo(_)
messagesUpTo(n) ==
    IF n = 0 THEN {{}}
    ELSE LET shorter == messagesUpTo(n - 1)
         IN  shorter \cup {m \cup {w} : m \in shorter, w \in Words}

ErrorMessages == messagesUpTo(MaxWords)

\* A search that tells capitals from small letters.
toLowerCase_skipped(message) == {w[1] : w \in {x \in message : ~x[2]}}

\* error.message.toLowerCase(), as the keywords that occur in it.
toLowerCase(message) == {w[1] : w \in message}

getErrorSuggestion_call(message) ==
    utility_call("getErrorSuggestion", message,
                 getErrorSuggestion([text |-> "error",
                                     tokens |-> toLowerCase(message)]))

\* The text of a heading, character by character: a capital letter, a
\* blank, a punctuation mark, and an inline tag (taken as one character).
Characters == {"A", " ", "!", "<i>"}

HeadingTexts == UNION { [1..n -> Characters] : n \in 0..MaxChars }

\* An H1 followed by an H2, each with its text.
HeadingPairs ==
    { << <<1, t1>>, <<2, t2>> >> : t1 \in HeadingTexts, t2 \in HeadingTexts }

\* text.replace(/<[^>]*>/g, '')
isNoTag(c) == c # "<i>"

stripTags(t) == SelectSeq(t, isNoTag)

\* String.prototype.trim
RECURSIVE trimStart(_)
trimStart(t) ==
    IF t # <<>> /\ Head(t) = " " THEN trimStart(Tail(t)) ELSE t

RECURSIVE trimEnd(_)
trimEnd(t) ==
    IF t # <<>> /\ t[Len(t)] = " "
        THEN trimEnd(SubSeq(t, 1, Len(t) - 1))
        ELSE t

trim(t) == trimEnd(trimStart(t))

\* A derivation that keeps the capitals.
lowerCase_kept(c) == c

\* String.prototype.toLowerCase, character by character.
lowerCase(c) == IF c = "A" THEN "a" ELSE c

toLowerCaseText(t) == [i \in 1..Len(t) |-> lowerCase(t[i])]

\* text.replace(/\s+/g, '-'): every run of blanks becomes one hyphen.
RECURSIVE hyphenate(_)
hyphenate(t) ==
    IF t = <<>> THEN <<>>
    ELSE IF Head(t) = " "
        THEN <<"-">> \o hyphenate(trimStart(t))
        ELSE <<Head(t)>> \o hyphenate(Tail(t))

\* text.replace(/[^\w-]/g, ''): letters and hyphens stay.
isWordOrHyphen(c) == c \in {"A", "a", "-"}

stripNonWord(t) == SelectSeq(t, isWordOrHyphen)

\* addHeadingIds: the id put on a heading with the given text.
headingId(t) == stripNonWord(hyphenate(toLowerCaseText(trim(stripTags(t)))))

\* addHeadingIds: every heading gets its id and keeps its level and text.
addHeadingIds(headings) ==
    [i \in 1..Len(headings) |->
        <<headings[i][1], headingId(headings[i][2]), headings[i][2]>>]

\* generateToc: the id it derives from the text of a heading it has matched.
tocId(t) ==
    LET plain == trim(stripTags(t))
    IN  stripNonWord(hyphenate(toLowerCaseText(plain)))

\* generateToc: for every heading within the depth, in order, its place in
\* the document and the anchor its entry links to.
tocLinks(contentWithIds, maxDepth) ==
    LET kept(i) == withinDepth(contentWithIds[i][1], maxDepth)
        places == SelectSeq([i \in 1..Len(contentWithIds) |-> i], kept)
    IN  [k \in 1..Len(places) |->
            <<places[k], tocId(contentWithIds[places[k]][3])>>]

\* generateHtmlTemplate with includeToc: the headings with their ids, and
\* the links of the table of contents made from them.
generateHtmlTemplate(headings, tocDepth) ==
    LET contentWithIds == addHeadingIds(headings)
    IN  <<contentWithIds, tocLinks(contentWithIds, tocDepth)>>

generateHtmlTemplate_call(headings, tocDepth) ==
    utility_call("generateHtmlTemplate", <<headings, tocDepth>>,
                 generateHtmlTemplate(headings, tocDepth))

UtilityNext ==
    \/ /\ util = NoCall
       /\ \/ \E bytes \in ByteSamples : formatFileSize_call(bytes)
          \/ \E template \in Templates, variables \in Variables :
                replaceTemplateVariables_call(template, variables)
          \/ \E config \in HeaderFooters : formatHeaderFooter_call(config)
          \/ \E document \in Documents, maxDepth \in 1..MAX_HEADING_LEVEL :
                generateToc_call(document, maxDepth)
          \/ \E message \in ErrorMessages : getErrorSuggestion_call(message)
          \/ \E headings \in HeadingPairs, tocDepth \in 1..2 :
                generateHtmlTemplate_call(headings, tocDepth)
    \/ utility_returns

UtilitySpec == Init /\ [][UtilityNext]_vars

TypeOK ==
    /\ browserInstance \in 0..(MaxLaunches + 1)
    /\ browserLaunchPromise \in 0..(MaxLaunches + 1)
    /\ activePages \in Int
    /\ nextLaunch \in 1..(MaxLaunches + 1)
    /\ BagCardinality(reqs) <= NumRequests
    /\ \A r \in Requests : r.releases \in 0..2
    /\ delivered \subseteq Signal
    /\ cleanups.closing + cleanups.returned <= Cardinality(delivered)
    /\ exited \in BOOLEAN
    /\ job.pc \in {"idle", "reading", "generating", "returned"}
    /\ job.input \in Inputs
    /\ job.result.status \in {"none", "success", "error"}
    /\ job.pc = "returned" <=> job.result.status # "none"

\* ------------------------------------------------------- derived notions
InFlight == {l \in Launch : launch[l] = "inflight"}
LiveBrowsers == {l \in Launch : launch[l] = "live"}
HeldBy(r) == r.page /\ r.releases = 0
HeldPages == others + CountOf(HeldBy)
ErrorResult(kind) == kind \notin {"none", "success"}
Succeeded(r) == r.pc = "done" /\ r.outcome = "success"
Failed(r) == r.pc = "done" /\ ErrorResult(r.outcome)
Quiescent == \A r \in Requests : r.pc = "done"
\* No browser has gone away and closeBrowser has not been called.
Undisturbed == ~shutdownRan /\ \A l \in Launch : launch[l] \notin {"closing", "closed"}

\* ------------------------------------------------------------------ claims

\* C1: the pages acquired and not yet released, and the activePages counter,
\* never exceed MAX_CONCURRENT_PAGES (stated on behaviours in which
\* closeBrowser has not been called, where it already fails).
C1_QuotaNeverExceeded ==
    ~shutdownRan =>
        /\ HeldPages <= MAX_CONCURRENT_PAGES
        /\ activePages <= MAX_CONCURRENT_PAGES

\* C2: callers that arrive with no session while no browser has gone away and
\* no shutdown has run share one launch: at most one launch is in flight, it
\* is the one the launch promise names, every caller waiting on an unsettled
\* launch waits on that one, and every caller that got a browser got the
\* published session.
C2_SingleLaunchForFirstCallers ==
    Undisturbed =>
        /\ Cardinality(InFlight) + Cardinality(LiveBrowsers) <= 1
        /\ \A l \in InFlight : browserLaunchPromise = l
        /\ \A r \in Requests :
             (r.pc = "awaitLaunch" /\ launch[r.ticket] = "inflight")
                => r.ticket = browserLaunchPromise
        /\ \A r \in Requests :
             r.pc = "newPage"
                => (r.ticket = browserInstance /\ launch[r.ticket] = "live")

\* C2 witness: no session existed, one launch was started and two callers
\* wait on it.
C2_Witness ==
    /\ Undisturbed
    /\ others = 0
    /\ nextLaunch = 2
    /\ launch[2] = "inflight"
    /\ reqs = [r \in {[NewRequest EXCEPT !.pc = "awaitLaunch", !.ticket = 2]} |-> 2]

\* C3: at most one launch is in flight in every reachable state (stated on
\* behaviours in which closeBrowser has not been called, where it already
\* fails: two callers that both found the session unhealthy each launch).
C3_AtMostOneLaunchInFlight ==
    ~shutdownRan => Cardinality(InFlight) <= 1

\* C4: at most one launched, unclosed browser is alive in every reachable
\* state (stated on behaviours in which closeBrowser has not been called).
C4_AtMostOneLiveBrowser ==
    ~shutdownRan => Cardinality(LiveBrowsers) <= 1

\* C5: a finished conversion that acquired a page has executed releasePage
\* for it exactly once.
C5_ReleasedExactlyOnce ==
    \A r \in Requests : (r.pc = "done" /\ r.acquired) => r.releases = 1

\* C6: without shutdown, once N successful and N failing conversions have
\* all completed (none of them returned yet, no other one started),
\* activePages is back at the value it had before they started.
C6_CounterBackToBaseline ==
    ( /\ ~shutdownRan
      /\ Quiescent
      /\ CountOf(Succeeded) >= 1
      /\ CountOf(Succeeded) = CountOf(Failed) )
    => activePages = others

\* C7: when MAX_CONCURRENT_PAGES pages are held, the acquirePage call a
\* conversion makes next ends it at once with the quota error and leaves the
\* session, the launch promise, the launches and activePages as they were
\* (stated on behaviours in which closeBrowser has not been called).
C7_SaturatedAcquireFailsFast ==
    [][ \A r \in Requests :
          ( /\ generatePdf_prepared(r)
            /\ ~shutdownRan
            /\ HeldPages = MAX_CONCURRENT_PAGES )
          => /\ move(r, [r EXCEPT !.pc = "done", !.outcome = "quota"])
             /\ UNCHANGED mgr ]_vars

C9_SecondReleaseIsNoOp ==
    [][ \A r \in Requests :
          ( /\ r.releases >= 1
            /\ \E closeOk \in BOOLEAN :
                 \/ generatePdf_released(r, closeOk)
                 \/ generatePdf_catchReleased(r, closeOk)
                 \/ generatePdf_finallyReleased(r, closeOk) )
          => activePages' = activePages ]_vars

\* C10: activePages is never negative and no releasePage call has raised.
C10_CounterNonNegativeReleaseSafe ==
    activePages >= 0 /\ ~releaseThrew

\* C10 witness: no other page is held and the only conversion has released
\* its page twice, the second time with the counter already at zero.
C10_Witness ==
    /\ others = 0
    /\ activePages = 0
    /\ BagCardinality(reqs) = 1
    /\ \E r \in Requests : r.pc = "done" /\ r.releases = 2

\* C11: when a launch fails (closeBrowser not called), no launch is in flight
\* afterwards, the launch promise and the session are null and activePages
\* is unchanged; a caller that waited on a failed launch ends with the
\* launch-failed error; an acquirePage call that finds neither a session nor
\* a launch promise starts a new launch.
C11_LaunchFailureLeavesCleanState ==
    [][ /\ \A l \in Launch :
             (getBrowser_launchSettles(l, FALSE) /\ ~shutdownRan)
                => /\ InFlight' = {}
                   /\ browserLaunchPromise' = 0
                   /\ browserInstance' = 0
                   /\ activePages' = activePages
        /\ \A r \in Requests :
             (acquirePage_afterLaunch(r) /\ launch[r.ticket] = "failed")
                => move(r, generatePdf_catch(r, "launchFailed"))
        /\ \A r \in Requests :
             ( /\ generatePdf_prepared(r)
               /\ ~quotaReached(activePages)
               /\ browserInstance = 0
               /\ browserLaunchPromise = 0 )
                => /\ nextLaunch' = nextLaunch + 1
                   /\ launch'[nextLaunch'] = "inflight"
                   /\ browserLaunchPromise' = nextLaunch' ]_vars

\* C12: when a closeBrowser call returns, the session is null, no launch
\* promise is set, activePages is 0 and no closeBrowser call has raised,
\* whether it found a session (and closed it, with or without a fault of
\* close()) or not, on the first call and on every later one; the browser it
\* called close() on is closed.
C12_ShutdownLeavesManagerEmpty ==
    [][ ( \/ \E closeOk \in BOOLEAN : closeBrowser_resume(closeOk)
          \/ (closeBrowser_enter /\ browserInstance = 0) )
        => /\ browserInstance' = 0
           /\ browserLaunchPromise' = 0
           /\ activePages' = 0
           /\ ~closeThrew'
           /\ sdpc' = "idle"
           /\ \A l \in Launch : launch'[l] # "closing" ]_vars

\* C12 witness: pages were held on a session, closeBrowser has been called
\* and has returned, and left the manager empty.
C12_Witness ==
    /\ shutdownRan
    /\ sdpc = "idle"
    /\ others > 0
    /\ launch[1] = "closed"
    /\ browserInstance = 0
    /\ browserLaunchPromise = 0
    /\ activePages = 0

\* C13: the process has exited on a termination signal only if a closeBrowser
\* call made by cleanup() for a signal has returned before.
C13_ExitAfterShutdownCompletes ==
    exited => (delivered # {} /\ cleanups.returned >= 1)

\* C13 witness: the process has exited after a signal that found a session,
\* for which a cleanup handler registered by the launch ran as well and is
\* still suspended in close().
C13_Witness ==
    /\ exited
    /\ onceRunning >= 1
    /\ \E l \in Launch : launch[l] = "closed"

\* --------------------------------------------- claims about one tool call
\* The sources an input provides: the arguments holding a non-empty string.
providedSources(in) == {f \in DOMAIN in : in[f] \notin {"absent", "empty"}}

\* The two results validateInputSource can produce.
validationErrors ==
    {validateInputSource(in).result : in \in Inputs} \ {NoResult}

\* The stages of a conversion, in the order of generatePdf's try block.
StageOrder ==
    <<"Start", "ContentPrepared", "PageAcquired", "ContentLoaded",
      "HighlightSettled", "ArtifactProduced", "StatsCollected",
      "PageReleased", "Completed">>

\* The stage the tool call is in: "NotStarted" before generatePdf is called,
\* "Failing" while the catch and finally blocks clean up after an error.
stageOf(j, r) ==
    CASE r.pc = "prepare" -> "Start"
      [] r.pc \in {"awaitHealth", "awaitLaunch", "newPage"} -> "ContentPrepared"
      [] r.pc = "render" /\ j.step \in {"viewport", "setContent"} -> "PageAcquired"
      [] r.pc = "render" /\ j.step = "waitForFunction" -> "ContentLoaded"
      [] r.pc = "render" /\ j.step = "pdf" -> "HighlightSettled"
      [] r.pc = "render" /\ j.step = "gatherStats" -> "ArtifactProduced"
      [] r.pc = "release" -> "StatsCollected"
      [] r.pc = "done" /\ r.outcome = "success" -> "PageReleased"
      [] OTHER -> "Failing"
Stage ==
    IF job.pc = "generating"
    THEN IF Requests = {} THEN "Failing"
         ELSE stageOf(job, CHOOSE r \in Requests : TRUE)
    ELSE IF job.pc = "returned"
    THEN IF job.result.status = "success" THEN "Completed" ELSE "Failed"
    ELSE "NotStarted"

\* The stage after st in StageOrder.
stageAfter(st) ==
    {StageOrder[i + 1] : i \in {k \in 1..(Len(StageOrder) - 1) : StageOrder[k] = st}}

\* C14: a call of convertMarkdownToPdf whose input provides zero, two or
\* three sources returns at once one of the two validation error results,
\* reads no file and no URL, starts no generatePdf, and leaves the session,
\* the launch promise, the launches and activePages as they were.
C14_InvalidSourcesRejectedUntouched ==
    [][ \A in \in Inputs :
          (convert_call(in) /\ Cardinality(providedSources(in)) # 1)
             => /\ job'.pc = "returned"
                /\ job'.result \in validationErrors
                /\ job'.result.status = "error"
                /\ job'.read = "none"
                /\ UNCHANGED <<mgr, reqs>> ]_vars

\* C14 witness: a call that gave both content and a file path has returned
\* the validation error with nothing acquired.
C14_Witness ==
    /\ job.pc = "returned"
    /\ job.input.markdown_content = "text"
    /\ job.input.markdown_file_path = "given"
    /\ job.result.error = "Multiple input sources provided"
    /\ job.read = "none"
    /\ reqs = EmptyBag
    /\ activePages = others

\* C15: what convertMarkdownToPdf returns is a success result or an error
\* result, never a raised error, and an error result has a non-empty message
\* and a non-empty suggestion.
C15_ConvertNeverRaises ==
    job.pc = "returned" =>
        /\ job.result.status \in {"success", "error"}
        /\ job.result.status = "error" =>
             (job.result.error # "" /\ job.result.suggestion # "")

\* C15 witness: a call whose page.pdf failed after the page was acquired has
\* returned an error result.
C15_Witness ==
    /\ job.pc = "returned"
    /\ job.step = "pdf"
    /\ job.result.status = "error"
    /\ job.result.error # ""
    /\ job.result.suggestion # ""

\* C16: a call whose gatherStats failed returns a success result with empty
\* stats and a warning.
C16_StatsFailureNotFatal ==
    (job.pc = "returned" /\ job.step = "gatherStats")
        => /\ job.result.status = "success"
           /\ job.result.pages = NoStats.pages
           /\ job.result.warnings # {}

\* C17: whatever page.waitForFunction did, timeout or fault included, the
\* conversion goes on to page.pdf: the step ends no conversion, and a call
\* that has returned with a failed wait behind it did not fail at that step.
C17_HighlightWaitNeverFatal ==
    [][ \A r \in Requests : \A ok \in BOOLEAN :
          generatePdf_highlightWaited(r, ok)
             => /\ job'.step = "pdf"
                /\ UNCHANGED reqs
                /\ Stage' = "HighlightSettled" ]_vars

\* C17 witness: a call whose highlight wait timed out has returned a success
\* result.
C17_Witness ==
    /\ job.pc = "returned"
    /\ job.waited = "timeout"
    /\ job.result.status = "success"

\* C18: every step of a tool call keeps its stage, moves it to the next
\* stage of StageOrder, or leads to Failed (through the cleanup of the catch
\* and finally blocks); the cleanup leads nowhere but to Failed, and a new
\* call begins only after Completed or Failed.
C18_StagesInOrder ==
    [][ \/ Stage' = Stage
        \/ Stage' \in stageAfter(Stage)
        \/ Stage \notin {"Completed", "Failed"} /\ Stage' \in {"Failing", "Failed"}
        \/ Stage = "NotStarted" /\ Stage' = "Start"
        \/ Stage \in {"Completed", "Failed"} /\ Stage' = "NotStarted" ]_vars

\* C18 witness: a call has gone through all stages and completed.
C18_Witness ==
    /\ Stage = "Completed"
    /\ job.step = "releasePage"
    /\ job.bytes > 0

\* C19: a call whose markdown_file_path named a missing file returns an
\* error result whose suggestion is the file-not-found suggestion.
C19_MissingFileSuggestion ==
    (job.pc = "returned" /\ job.missing)
        => /\ job.result.status = "error"
           /\ job.result.suggestion =
                "File not found. Check if the path is correct and the file exists. Use an absolute path for reliability."

\* C20: a success result reports at least one page, namely the estimate
\* computed from the size of the produced file.
C20_PageCountAtLeastOne ==
    job.result.status = "success"
        => /\ job.result.pages >= 1
           /\ job.result.pages = estimatePageCount(job.result.bytes)

\* C25: a failure during content preparation (output directory, markdown
\* translation, theme load, template assembly) happens before any page is
\* acquired: the step leaves activePages, the session and the launch ticket
\* as they are and starts no launch, and the request fails without holding
\* or releasing a page.
C25_PrepareFailureTouchesNothing ==
    [][\A r \in Requests :
          (r.pc = "prepare"
             /\ \E r2 \in Requests' : r2.outcome = "prepareFailed")
          => /\ UNCHANGED <<activePages, browserInstance,
                            browserLaunchPromise, launch, nextLaunch>>
             /\ \A r2 \in Requests' :
                    /\ r2.pc = "done"
                    /\ ~r2.page /\ ~r2.acquired /\ r2.releases = 0
                    /\ r2.ticket = 0]_vars

\* A conversion has failed in its preparation while a session exists and
\* other conversions hold pages.
C25_Witness ==
    /\ \E r \in Requests : r.pc = "done" /\ r.outcome = "prepareFailed"
    /\ browserInstance # 0
    /\ activePages = MAX_CONCURRENT_PAGES - 1

\* C26: getBrowser returns the existing session only if the health check
\* made in that same call returned true, and the check returns true only for
\* a session that is not dead; when it returned false the session reference
\* is discarded and a new launch is started.  A session known to be dead is
\* never handed out.
C26_OnlyHealthySessionReused ==
    [][/\ \A r2 \in Requests' \ Requests :
             (r2.pc = "awaitHealth" /\ r2.healthy)
             => /\ browserInstance # 0
                /\ launch[browserInstance] \notin {"closed", "failed"}
       /\ \A r \in Requests \ Requests', r2 \in Requests' \ Requests :
             r.pc = "awaitHealth"
             => /\ r2.pc = "newPage"
                       => r.healthy /\ r2.ticket = browserInstance
                /\ ~r.healthy
                       => /\ browserInstance' = 0
                          /\ nextLaunch' = nextLaunch + 1
                          /\ browserLaunchPromise' = nextLaunch'
                          /\ launch'[nextLaunch'] = "inflight"
                          /\ r2.pc = "awaitLaunch"
                          /\ r2.ticket = nextLaunch']_vars

\* A dead session has been found unhealthy and dropped, and the conversion
\* waits for the launch that replaces it.
C26_Witness ==
    /\ browserInstance = 0
    /\ \E b \in Launch : launch[b] = "closed"
    /\ \E r \in Requests :
          /\ r.pc = "awaitLaunch"
          /\ r.ticket = browserLaunchPromise
          /\ launch[r.ticket] = "inflight"

\* C28: in detailed mode the warnings of a success result contain every
\* warning accumulated on the way: the missing-image entry when images
\* failed to load, and the highlight-timeout entry when the wait for syntax
\* highlighting timed out.
C28_DetailedWarningsComplete ==
    (job.pc = "returned" /\ job.result.status = "success"
                         /\ job.result.metadata)
    => /\ job.stats.missingImages
              => "image(s) failed to load" \in job.result.warnings
       /\ job.waited = "timeout"
              => "Code highlighting timeout" \in job.result.warnings

\* The tool call ends with the empty-content error and has touched neither
\* the conversions nor the browser manager.
emptyContentRejected ==
    /\ job'.pc = "returned"
    /\ job'.result.status = "error"
    /\ job'.result.error = "Markdown content is empty"
    /\ job'.result.suggestion # ""
    /\ UNCHANGED <<reqs, mgr>>

\* C30: when the single provided source yields content that is empty or
\* only whitespace, convertMarkdownToPdf returns the error 'Markdown content
\* is empty' with a suggestion and never calls generatePdf, so the state of
\* the browser manager is unchanged.  A source is provided when its argument
\* holds a non-empty string.
C30_EmptyContentRejected ==
    [][/\ \A content \in {"empty", "blank"} :
             convert_contentRead(content) => emptyContentRejected
       /\ \A in \in Inputs :
             (/\ providedSources(in) = {"markdown_content"}
              /\ in.markdown_content = "blank"
              /\ convert_call(in))
             => emptyContentRejected]_vars

\* A file that holds only whitespace has been rejected while other
\* conversions hold pages.
C30_Witness ==
    /\ job.pc = "returned"
    /\ job.read = "file"
    /\ job.result = emptyContentResponse
    /\ activePages = MAX_CONCURRENT_PAGES - 1
    /\ reqs = EmptyBag

\* What the tool call has read once it took its content from the source.
readFrom(source) ==
    CASE source = "markdown_content" -> "none"
      [] source = "markdown_file_path" -> "file"
      [] source = "markdown_url" -> "url"

\* C35: whenever validateInputSource accepts an input, convertMarkdownToPdf
\* takes its content from exactly the one provided source: inline content
\* goes on without any read, a file path starts the read of the file, a URL
\* starts the fetch, and from then on the call never reads anything else.
\* The final 'No input source provided' branch of the source selection is
\* never the result of an accepted input.
C35_AcceptedInputReadsItsOneSource ==
    [][/\ \A in \in Inputs :
             (validateInputSource(in).valid /\ convert_call(in))
             => \E source \in DOMAIN in :
                   /\ providedSources(in) = {source}
                   /\ job'.input = in
                   /\ job'.read = readFrom(source)
                   /\ source = "markdown_content"
                          => \/ job'.pc = "generating"
                             \/ job'.result = emptyContentResponse
                   /\ source # "markdown_content" => job'.pc = "reading"
                   /\ job'.result.error # "No input source provided"
       /\ (/\ job.pc # "idle"
           /\ job'.pc # "idle"
           /\ validateInputSource(job.input).valid)
             => /\ job'.input = job.input
                /\ job'.read = job.read
                /\ job'.result.error # "No input source provided"]_vars

\* A call that gave an empty content string and a URL was accepted and has
\* fetched the URL, the one provided source.
C35_Witness ==
    /\ job.input.markdown_content = "empty"
    /\ job.input.markdown_file_path = "absent"
    /\ job.input.markdown_url = "given"
    /\ validateInputSource(job.input).valid
    /\ job.read = "url"
    /\ job.pc = "generating"

\* C27: if every call to an external collaborator eventually returns or
\* fails, every conversion request eventually reaches Completed or Failed
\* and then holds no page, also when shutdown runs while the request is in
\* flight.
C27_EveryRequestEnds ==
    /\ [](\A r \in Requests : r.pc = "done" => ~HeldBy(r))
    /\ (job.pc \in {"reading", "generating"})
           ~> (/\ job.pc = "returned"
               /\ job.result.status \in {"success", "error"}
               /\ reqs = EmptyBag)

\* A conversion has ended without a page in its hands although shutdown ran
\* while it held one.
C27_Witness ==
    /\ shutdownRan
    /\ \E r \in Requests : r.pc = "done" /\ r.page /\ r.releases > 0
    /\ job.pc = "generating"

\* ------------------------------------------------- claims about shutdown
\* closeBrowser has returned after clearing the launch promise of launch l,
\* which was in flight and still is.  With one tool call followed, the
\* acquire that started l was issued before closeBrowser returned, and no
\* other acquire is issued before l settles.
overtakenByShutdown(l) ==
    /\ shutdownRan
    /\ sdpc = "idle"
    /\ launch[l] = "inflight"
    /\ browserLaunchPromise = 0

\* C32: if closeBrowser runs while a launch is in flight or while the
\* session is being closed, then once it has returned and the work in
\* flight has settled, no live unclosed session is published as the
\* singleton, unless an acquire was issued after closeBrowser returned: a
\* launch that closeBrowser overtook does not publish its browser when it
\* settles.
C32_NoSessionSurvivesShutdown ==
    [][\A l \in Launch :
          (overtakenByShutdown(l) /\ launch'[l] = "live")
          => browserInstance' # l]_vars

\* ------------------------------------------- claims about the page counter
\* The conversion is inside acquirePage or inside a releasePage call.
midStep(r) ==
    r.pc \in {"awaitHealth", "awaitLaunch", "newPage",
              "release", "catchRelease", "finallyRelease"}

\* C31: when no shutdown has run, at every point where no acquire or release
\* is mid-step, activePages equals the number of pages acquired and not yet
\* released by their owning request; in particular the failure of one
\* request never lowers the counter by more than the one page it held.
C31_CounterEqualsHeldPages ==
    (~shutdownRan /\ \A r \in Requests : ~midStep(r))
    => activePages = HeldPages

\* ------------------------------------- claims about the utility functions
\* The tenths of a formatted size.
tenthsOf(o) == o.whole * 10 + o.decimals[1]

\* o shows bytes / den with exactly one decimal: no number of tenths is
\* nearer to the quotient.
oneDecimalOf(o, bytes, den) ==
    /\ Len(o.decimals) = 1
    /\ o.decimals[1] \in 0..9
    /\ LET diff == tenthsOf(o) * den - bytes * 10
       IN  2 * (IF diff < 0 THEN -diff ELSE diff) <= den

\* C21: formatFileSize(0) is "0 B" and formatFileSize(1536) is "1.5 KB"; a
\* size below 1024 is the plain byte count with unit B, a size from 1024 up
\* to but excluding 1024 * 1024 is the count divided by 1024 with exactly
\* one decimal and unit KB, and a size from 1024 * 1024 on is the count
\* divided by 1024 * 1024 with exactly one decimal and unit MB.
C21_FormatFileSizeUnits ==
    util.fn = "formatFileSize" =>
        LET bytes == util.arg
            o == util.out
        IN  /\ bytes = 0 => o = [whole |-> 0, decimals |-> <<>>, unit |-> "B"]
            /\ bytes = 1536 =>
                   o = [whole |-> 1, decimals |-> <<5>>, unit |-> "KB"]
            /\ bytes < 1024 =>
                   o = [whole |-> bytes, decimals |-> <<>>, unit |-> "B"]
            /\ (bytes >= 1024 /\ bytes < 1024 * 1024) =>
                   o.unit = "KB" /\ oneDecimalOf(o, bytes, 1024)
            /\ bytes >= 1024 * 1024 =>
                   o.unit = "MB" /\ oneDecimalOf(o, bytes, 1024 * 1024)

\* The largest size still shown in KB has been formatted.
C21_Witness ==
    /\ util.fn = "formatFileSize"
    /\ util.arg = 1024 * 1024 - 1
    /\ util.out.unit = "KB"

\* A field of the variables object holds a value: it is present and neither
\* 0 nor the empty string.
given(variables, field) ==
    /\ field \in DOMAIN variables
    /\ IF field \in {"page", "total"}
           THEN variables[field] # 0
           ELSE variables[field] # ""

isText(piece) == piece = " of "

\* What a piece of the template is to become.
substituted(piece, variables) ==
    CASE piece = "{page}" -> ToString(variables.page)
      [] piece = "{total}" -> ToString(variables.total)
      [] piece = "{date}" ->
            IF given(variables, "date") THEN variables.date ELSE today
      [] piece = "{title}" ->
            IF given(variables, "title") THEN variables.title ELSE "Document"
      [] OTHER -> piece

\* C22: replaceTemplateVariables replaces every occurrence of {page},
\* {total}, {date} and {title} by the given values ("{page} of {total}" with
\* page 2 and total 5 becomes "2 of 5"), an unset date by the current date
\* and an unset title by "Document", and leaves the text outside the
\* placeholders as it is.  A value counts as given when it is neither 0 nor
\* the empty string, which the function takes for unset.
C22_PlaceholdersReplaced ==
    util.fn = "replaceTemplateVariables" =>
        LET template == util.arg[1]
            variables == util.arg[2]
            out == util.out
            pieces == {template[i] : i \in 1..Len(template)}
        IN  /\ \A i \in 1..Len(out) : out[i] \notin Placeholders
            /\ SelectSeq(out, isText) = SelectSeq(template, isText)
            /\ (/\ "{page}" \in pieces => given(variables, "page")
                /\ "{total}" \in pieces => given(variables, "total"))
                   => /\ Len(out) = Len(template)
                      /\ \A i \in 1..Len(template) :
                             out[i] = substituted(template[i], variables)
            /\ (/\ template = <<"{page}", " of ", "{total}">>
                /\ given(variables, "page") /\ variables.page = 2
                /\ given(variables, "total") /\ variables.total = 5)
                   => out = <<"2", " of ", "5">>

\* "{page} of {total}" has been filled in with page 2 of 5.
C22_Witness ==
    /\ util.fn = "replaceTemplateVariables"
    /\ util.arg[1] = <<"{page}", " of ", "{total}">>
    /\ "page" \in DOMAIN util.arg[2]
    /\ "total" \in DOMAIN util.arg[2]
    /\ util.out = <<"2", " of ", "5">>

\* What Chromium's print templates fill in with the number of the page
\* being printed and with the number of pages.
pageNumberPiece == "<span class=\"pageNumber\"></span>"

totalPagesPiece == "<span class=\"totalPages\"></span>"

\* The pieces of a cell's text.
piecesOf(cell) == {cell[i] : i \in 1..Len(cell)}

\* C23: a header or footer template that contains {page} or {total} is
\* handed to the renderer with the page number and the total substituted, so
\* that the rendered header or footer shows page numbers.
C23_PageNumbersShown ==
    util.fn = "formatHeaderFooter" =>
        \A i \in 1..3 :
            LET template == cellOf(util.arg, Cells[i])
                handed == util.out[i]
            IN  /\ "{page}" \in piecesOf(template)
                       => pageNumberPiece \in piecesOf(handed)
                /\ "{total}" \in piecesOf(template)
                       => totalPagesPiece \in piecesOf(handed)

\* The number of lists open at place p of a table of contents.
nesting(toc, p) ==
    Cardinality({q \in 1..p : toc[q] = ulOpen})
        - Cardinality({q \in 1..p : toc[q] = ulClose})

\* The places of a table of contents that hold an entry.
entries(toc) == {p \in 1..Len(toc) : toc[p][1] = "<li>"}

\* C24: generateToc lists exactly the headings whose level is at most the
\* depth, in document order, each nested as deep as its level: for an H1 "A"
\* followed by an H2 "B" and depth 2 the list has two levels with B one level
\* below A, with depth 1 the H2 is left out, and when no heading is within
\* the depth there is no table of contents.
C24_TocListsHeadingsWithinDepth ==
    util.fn = "generateToc" =>
        LET document == util.arg[1]
            maxDepth == util.arg[2]
            toc == util.out
            within == {i \in 1..Len(document) : document[i] <= maxDepth}
        IN  /\ within = {} <=> toc = <<>>
            /\ {toc[p][2] : p \in entries(toc)} = within
            /\ \A p, q \in entries(toc) : p < q => toc[p][2] < toc[q][2]
            /\ \A p \in entries(toc) : nesting(toc, p) = document[toc[p][2]]
            /\ toc # <<>> => nesting(toc, Len(toc)) = 0
            /\ (document = <<1, 2>> /\ maxDepth = 2) =>
                   toc = <<ulOpen, li(1), ulOpen, li(2), ulClose, ulClose>>
            /\ (document = <<1, 2>> /\ maxDepth = 1) =>
                   toc = <<ulOpen, li(1), ulClose>>

\* The table of contents of an H1 followed by an H2 has been made with
\* depth 2.
C24_Witness ==
    /\ util.fn = "generateToc"
    /\ util.arg = <<<<1, 2>>, 2>>
    /\ Len(util.out) = 6

\* The categories of errors in the order they are looked for, each with its
\* keywords and its suggestion.
Categories ==
    << [keywords |-> {"enoent", "no such file"},
        suggestion |-> "File not found. Check if the path is correct and the file exists. Use an absolute path for reliability."],
       [keywords |-> {"eacces", "permission denied"},
        suggestion |-> "Permission denied. Ensure you have write access to the output directory. Try a different output path."],
       [keywords |-> {"timeout", "timed out"},
        suggestion |-> "Request timed out. Try setting wait_for_network_idle: false or check your network connection."],
       [keywords |-> {"fetch", "network"},
        suggestion |-> "Network error while fetching remote content. Check the URL and your internet connection."],
       [keywords |-> {"markdown", "parse"},
        suggestion |-> "Invalid markdown syntax. Review the markdown content for formatting errors."],
       [keywords |-> {"browser", "chromium"},
        suggestion |-> "Browser error. Ensure Playwright Chromium is installed: pnpm exec playwright install chromium"],
       [keywords |-> {"enospc", "no space"},
        suggestion |-> "Not enough disk space. Free up some space and try again."],
       [keywords |-> {"invalid", "validation"},
        suggestion |-> "Invalid input parameters. Check the parameter values and try again."] >>

genericSuggestion ==
    "An unexpected error occurred. Check the error message for details and try again."

\* The categories of which a keyword occurs in the message, in any case.
matching(message) ==
    {i \in 1..Len(Categories) :
        \E w \in message : w[1] \in Categories[i].keywords}

\* C29: getErrorSuggestion checks the categories in the fixed order
\* file-not-found, permission, timeout, network, markdown/parse, browser,
\* disk space, invalid input, and returns the suggestion of the first
\* category of which a keyword occurs in the lower-cased message; it returns
\* the generic suggestion if and only if no keyword of any category occurs.
C29_FirstMatchingCategory ==
    util.fn = "getErrorSuggestion" =>
        LET hits == matching(util.arg)
        IN  /\ hits # {} =>
                   \E i \in hits :
                       /\ \A j \in hits : i <= j
                       /\ util.out = Categories[i].suggestion
            /\ util.out = genericSuggestion <=> hits = {}

\* A message in capitals that names a missing file and a timeout has got
\* the file-not-found suggestion.
C29_Witness ==
    /\ util.fn = "getErrorSuggestion"
    /\ util.arg = {<<"enoent", TRUE>>, <<"timeout", FALSE>>}
    /\ util.out = Categories[1].suggestion

\* C34: for every sequence of heading levels in 1..6, also one that starts
\* below level 1 or skips levels, the list markup generateToc produces is
\* balanced: no list is closed that was not opened, every opened list is
\* closed, and each entry stands at a nesting depth equal to its heading
\* level.
C34_TocMarkupBalanced ==
    util.fn = "generateToc" =>
        LET document == util.arg[1]
            toc == util.out
        IN  /\ \A p \in 1..Len(toc) : nesting(toc, p) >= 0
            /\ toc # <<>> => toc[1] = ulOpen /\ nesting(toc, Len(toc)) = 0
            /\ \A p \in 1..Len(toc) :
                   toc[p][1] = "<li>"
                   => /\ nesting(toc, p) = document[toc[p][2]]
                      /\ nesting(toc, p) >= 1

\* The table of contents of a document that starts at level 3 and falls
\* back to level 1 has been made.
C34_Witness ==
    /\ util.fn = "generateToc"
    /\ util.arg = <<<<3, 1>>, MAX_HEADING_LEVEL>>
    /\ util.out = <<ulOpen, ulOpen, ulOpen, li(1), ulClose, ulClose, li(2),
                    ulClose>>

\* The text of a heading as a reader sees it, capitals aside: without
\* tags and surrounding blanks, runs of blanks taken as one.
normalizedText(t) == hyphenate(toLowerCaseText(trim(stripTags(t))))

\* C33: each entry of the table of contents links to exactly the anchor id
\* that addHeadingIds put on its heading, derived by lower-casing the text,
\* turning whitespace into hyphens and stripping what is neither a word
\* character nor a hyphen; two distinct headings with the same normalized
\* text get the same anchor, not a de-duplicated one.
C33_TocLinksMatchHeadingIds ==
    util.fn = "generateHtmlTemplate" =>
        LET headings == util.arg[1]
            tocDepth == util.arg[2]
            contentWithIds == util.out[1]
            links == util.out[2]
        IN  /\ {links[k][1] : k \in 1..Len(links)}
                   = {i \in 1..Len(headings) : headings[i][1] <= tocDepth}
            /\ \A k \in 1..Len(links) :
                   links[k][2] = contentWithIds[links[k][1]][2]
            /\ \A i \in 1..Len(headings) :
                   \A p \in 1..Len(contentWithIds[i][2]) :
                       contentWithIds[i][2][p] \in {"a", "-"}
            /\ \A i, j \in 1..Len(headings) :
                   normalizedText(headings[i][2]) = normalizedText(headings[j][2])
                   => contentWithIds[i][2] = contentWithIds[j][2]

\* Two headings with different texts have got the same anchor, and both
\* entries of the table of contents link to it.
C33_Witness ==
    /\ util.fn = "generateHtmlTemplate"
    /\ util.arg[1][1][2] # util.arg[1][2][2]
    /\ Len(util.out[2]) = 2
    /\ util.out[2][1][2] = <<"a">>
    /\ util.out[2][2][2] = <<"a">>

====
